---- MODULE Spec2Model ----
(***************************************************************************)
(* Model of the process supervisor and output relay of                     *)
(* src/tools/simple_tui.py (run_and_stream and the functions it calls),    *)
(* and of its menu (choose_keyed, with prompt_choice as the fallback).     *)
(*                                                                         *)
(* One child run is modelled: the wizard has reached run_and_stream, the   *)
(* PTY strategy is tried first and the pipe strategy is the fallback.      *)
(* The child, the terminal user (Ctrl-C) and the environment are the       *)
(* nondeterministic parts.  Bytes are modelled as tokens: "a" is an        *)
(* ordinary visible character, TB stands for the text                      *)
(* "Traceback (most recent call last):" and KI for "KeyboardInterrupt".    *)
(*                                                                         *)
(* Assumptions about the environment (not decided by code under src/):     *)
(*  - the host is POSIX (the module imports termios unconditionally, so    *)
(*    os.name /= "nt" wherever the program runs at all);                   *)
(*  - SIGCHLD has its default disposition, so waitpid never reports        *)
(*    ECHILD for a child nobody reaped;                                    *)
(*  - the child does not close its output before it exits, and has no      *)
(*    descendants that keep the terminal or the pipe open;                 *)
(*  - spawning the child and installing the SIGINT handler is one step;     *)
(*  - the child writes single-byte characters, so chunk.decode never meets  *)
(*    a character cut by a chunk boundary.                                  *)
(* The menu is modelled from the key events read_key returns and from the   *)
(* stripped lines input() returns; read_key itself is modelled byte by      *)
(* byte in a specification of its own (KeyFairSpec), and together with the  *)
(* loop of choose_keyed in KeyMenuFairSpec.  WizardSpec is main from its    *)
(* first prompt to its exit, each prompt taken as one step.                 *)
(***************************************************************************)
EXTENDS Integers, Sequences, FiniteSets, TLC

\* ---------------------------------------------------------------- bounds
\* Number of bytes the child may write in one run.
MaxOut == 3
\* Number of Ctrl-C presses of the user in one run.
MaxInterrupts == 3
\* The same two bounds for the runs of the relay alone.
RelayMaxOut == 4
RelayMaxInterrupts == 1
\* Number of bytes of a child that only draws progress lines.
ProgressMaxOut == 5
\* Number of failing writes to the wizard's standard output in one run.
MaxFaults == 1
\* Number of invocations of run_and_stream by one caller, and the number of
\* bytes the children of these invocations may write.
MaxCalls == 2
SessionMaxOut == 2
\* Number of options of a menu, and number of key events or input lines one
\* menu consumes.
MaxOptions == 3
MaxKeys == 4
\* Number of bytes the user types while one read_key is running.
MaxBytes == 3
\* Bytes the child writes, and interrupts, after the wizard asked its
\* questions.
WizardMaxOut == 1
WizardMaxInterrupts == 1

\* ------------------------------------------------------------- constants
\* os.read(fd, 8192) / proc.stdout.read(8192): the size of one read, scaled
\* down so that a child can write more than one read buffer.
ReadSize == 2
SIGTERM == 15
SIGKILL == 9
\* The exit code of a child whose exec failed: os._exit(127) / return 127.
SpawnFailureCode == 127
\* The code the PTY strategy reports for a child that did not exit normally.
PtySignalledCode == 130
\* The exit status of the wizard after a KeyboardInterrupt reaches __main__.
KeyboardInterruptCode == 130
\* The exit status of the interpreter after any other uncaught exception.
UncaughtExceptionCode == 1

CR == "\r"
LF == "\n"
SP == " "
TB == "T"
KI == "K"
\* The bytes of a child that draws progress lines.
PlainBytes == {"a", CR, LF}
\* The bytes of a child that also prints a stack trace.
TraceBytes == {"a", TB, KI, CR, LF}
\* The exit statuses a child may choose.
ExitCodes == {0, 3}

VARIABLES
    pc,          \* where the wizard is (a menu, run_and_stream, main)
    stdinTty,    \* environment: sys.stdin.isatty()
    stdoutTty,   \* environment: sys.stdout.isatty()
    ptyForkOk,   \* environment: pty.fork() succeeds
    hasKillpg,   \* environment: os.killpg exists
    execOk,      \* environment: the program can be executed
    execErrno,   \* environment: why it cannot: "ENOENT" or "EACCES"
    repertoire,  \* environment: the bytes this child can write
    calls,       \* number of invocations of run_and_stream so far
    old_handler, \* _run_with_pty: the handler found by signal.getsignal
    options,     \* choose_keyed: len(options)
    initial,     \* choose_keyed: the idx argument of the call
    idx,         \* choose_keyed: idx (the selected index)
    typed,       \* the key events and input lines the menu has consumed
    screen,      \* the terminal: [alt, hidden] (alternate screen, cursor)
    choice,      \* the value the menu returned: <<>> or <<index>>
    keybuf,      \* read_key: bytes typed on standard input and not yet read
    eof,         \* read_key: standard input is at end of file
    bytesLeft,   \* read_key: bytes the user may still type
    ch,          \* read_key: what the reads of this call returned (ch1, ch2, ch3)
    retkey,      \* read_key: the value returned: <<>> or <<key>>
    tattr,       \* the attributes of the terminal on standard input
    old,         \* read_key: old, the attributes saved by termios.tcgetattr
    answered,    \* main: the prompts completed so far, with their answers
    mainret,     \* main: the value main returned: <<>> or <<code>>
    budget,      \* bytes the child may still write
    faults,      \* failing stdout writes still to come
    intrLeft,    \* Ctrl-C presses still to come
    strategy,    \* "none", "pty" or "pipe"
    handler,     \* the installed SIGINT handler: "prior", "pty" or "pipe"
    count,       \* interrupted["count"] of the installed handler
    suppress,    \* suppress_traceback: [on, in_tb]
    acc,         \* _stream_output: acc (the pending line)
    last_len,    \* _stream_output: last_len
    text,        \* _stream_output: the characters of the chunk still to process
    raising,     \* an exception is propagating through the finally of run_and_stream
    spawned,     \* number of children started by this invocation
    child,       \* the current child: "none", "running", "exited", "reaped"
    status,      \* how the current child ended: <<>>, <<"exit", s>> or <<"signal", n>>
    pending,     \* signals delivered to the current child and not yet acted on
    chan,        \* bytes the child wrote that the supervisor has not read
    wrote,       \* every byte the current child wrote, in order
    out,         \* bytes relayed to the wizard's standard output
    sent,        \* the kill calls made by the handlers, in order
    notices,     \* number of "[ctrl-c] Stopping" notices on standard error
    summary,     \* the codes of the "[done] Exit code" lines written, in order
    errors,      \* number of "Error: failed to spawn" messages printed
    orphans,     \* children started and then abandoned without a wait
    retcode,     \* the value run_and_stream returned: <<>> or <<code>>
    wizardExit   \* the exit status of the wizard process: <<>> or <<code>>

vars == <<pc, stdinTty, stdoutTty, ptyForkOk, hasKillpg, execOk, execErrno,
          repertoire, calls, old_handler, options, initial, idx, typed, screen,
          choice, keybuf, eof, bytesLeft, ch, retkey, tattr, old, answered, mainret, budget, faults, intrLeft, strategy, handler, count, suppress, acc, last_len, text, raising, spawned,
          child, status, pending, chan, wrote, out, sent, notices, summary,
          errors, orphans, retcode, wizardExit>>

envVars == <<stdinTty, stdoutTty, ptyForkOk, hasKillpg, execOk, execErrno, repertoire>>
mainVars == <<answered, mainret>>
keyVars == <<keybuf, eof, bytesLeft, ch, retkey, tattr, old>>
menuVars == <<options, initial, idx, typed, screen, choice, keyVars>>
relayVars == <<suppress, acc, last_len, text>>
childVars == <<child, status, pending, chan, wrote, budget>>

\* ------------------------------------------------------------ pure helpers
Max(a, b) == IF a >= b THEN a ELSE b
Min(a, b) == IF a <= b THEN a ELSE b

\* " " * n
Spaces(n) == [i \in 1..n |-> SP]

Take(s, n) == SubSeq(s, 1, Min(n, Len(s)))
Drop(s, n) == SubSeq(s, Min(n, Len(s)) + 1, Len(s))

\* line.startswith("Traceback (most recent call last):")
StartsWithTraceback(line) == Len(line) > 0 /\ line[1] = TB
\* "KeyboardInterrupt" in line
ContainsKeyboardInterrupt(line) == \E i \in 1..Len(line) : line[i] = KI

\* A filter that the interrupt marker does not take out of the block.
ProcessTracebackLineNoClear(line, sup) ==
    IF ~sup.on THEN [line |-> line, sup |-> sup]
    ELSE IF StartsWithTraceback(line)
         THEN [line |-> <<>>, sup |-> [sup EXCEPT !.in_tb = TRUE]]
    ELSE IF ContainsKeyboardInterrupt(line)
         THEN [line |-> <<>>, sup |-> sup]
    ELSE IF sup.in_tb THEN [line |-> <<>>, sup |-> sup]
    ELSE [line |-> line, sup |-> sup]

\* _process_traceback_line: the line to print and the new suppress_traceback.
ProcessTracebackLine(line, sup) ==
    IF ~sup.on THEN [line |-> line, sup |-> sup]
    ELSE IF StartsWithTraceback(line)
         THEN [line |-> <<>>, sup |-> [sup EXCEPT !.in_tb = TRUE]]
    ELSE IF ContainsKeyboardInterrupt(line)
         THEN [line |-> <<>>, sup |-> [sup EXCEPT !.in_tb = FALSE]]
    ELSE IF sup.in_tb THEN [line |-> <<>>, sup |-> sup]
    ELSE [line |-> line, sup |-> sup]

\* " " * max(0, last_len - len(acc))
Clear(lastLen, pendingLine) == Spaces(Max(0, lastLen - Len(pendingLine)))

\* `not suppress_traceback["on"] or not suppress_traceback["in_tb"]`
PartialVisible(sup) == ~sup.on \/ ~sup.in_tb

\* What the "\r" branch of _stream_output writes.
CrWrite(pendingLine, sup) ==
    IF PartialVisible(sup) THEN <<CR>> \o pendingLine ELSE <<>>

\* What the "\n" branch of _stream_output writes.
LfWrite(pendingLine, lastLen, sup) ==
    LET line == ProcessTracebackLine(pendingLine, sup).line
    IN IF line /= <<>> THEN <<CR>> \o line \o Clear(lastLen, pendingLine) \o <<LF>>
       ELSE <<>>

\* What the end-of-chunk branch of _stream_output writes.
FlushWrite(pendingLine, lastLen, sup) ==
    IF pendingLine /= <<>> /\ PartialVisible(sup)
    THEN <<CR>> \o pendingLine \o Clear(lastLen, pendingLine)
    ELSE <<>>

\* The raw wait status of a normal exit, WEXITSTATUS forgotten.
PtyExitCodeRaw(st) == IF st[1] = "exit" THEN st[2] * 256 ELSE PtySignalledCode

\* os.WEXITSTATUS(status) if os.WIFEXITED(status) else 130
PtyExitCode(st) == IF st[1] = "exit" THEN st[2] ELSE PtySignalledCode

\* Popen.returncode: the exit status, or minus the signal number.
PopenReturnCode(st) == IF st[1] = "exit" THEN st[2] ELSE 0 - st[2]

\* A return value that forgets the code of the child.
PipeReturnValueZero(st) == 0

\* int(proc.returncode or 0)
PipeReturnValue(st) == PopenReturnCode(st)

\* sys.exit(code): the exit status the operating system records.
ProcessExitStatus(code) == code % 256

\* print(f"Error: failed to spawn ..."): print without file= writes to
\* sys.stdout.
SpawnMessageStream == "stdout"

\* The target of the graceful signal: the process group where os.killpg
\* exists, else the child alone.
GracefulTarget == IF hasKillpg THEN "group" ELSE "child"

\* _kill_process(pid, sig): killpg, falling back to kill.
KillProcessTarget == IF hasKillpg THEN "group" ELSE "child"

\* proc.kill(): SIGKILL to the child process.
ProcKillTarget == "child"

KillCall(to, sig) == [to |-> to, pid |-> spawned, sig |-> sig]

\* A signal sent by a handler reaches the child while the child runs.
Deliver(sig) == IF child = "running" THEN pending \cup {sig} ELSE pending


\* ------------------------------------------------------------------ Init
TypeOK ==
    /\ pc \in {"q_mode", "q_src", "q_url", "q_lang", "q_overwrite", "q_burn",
               "q_use", "q_format", "q_run",
               "key_call", "key_read", "key_returned",
               "menu_call", "menu_key", "menu_prompt", "menu_returned",
               "start", "pipe_start", "pty_select", "pty_read", "pty_waitpid",
               "pipe_read", "pipe_char", "pipe_flush", "pipe_wait",
               "returned", "raised", "exited"}
    /\ stdinTty \in BOOLEAN /\ stdoutTty \in BOOLEAN
    /\ execErrno \in {"none", "ENOENT", "EACCES"}
    /\ calls \in Nat /\ options \in Nat /\ initial \in Int /\ idx \in Int
    /\ screen \in [alt : BOOLEAN, hidden : BOOLEAN]
    /\ eof \in BOOLEAN /\ bytesLeft \in Nat /\ Len(ch) <= 3
    /\ tattr \in {"cooked", "cbreak", "raw"}
    /\ old \in {"unset", "cooked", "cbreak", "raw"}
    /\ strategy \in {"none", "pty", "pipe"}
    /\ handler \in {"prior", "pty", "pipe"}
    /\ old_handler \in {"prior", "pty", "pipe"}
    /\ child \in {"none", "running", "exited", "reaped"}
    /\ count \in Nat /\ last_len \in Nat
    /\ budget \in Nat /\ faults \in 0..MaxFaults /\ intrLeft \in Nat

\* The reasons an exec can fail for.
ExecErrors == {"ENOENT", "EACCES"}

\* No read_key is running and nothing was typed ahead.
KeyIdle ==
    /\ keybuf = <<>>
    /\ eof = FALSE
    /\ bytesLeft = 0
    /\ ch = <<>>
    /\ retkey = <<>>
    /\ tattr = "cooked"
    /\ old = "unset"

\* No menu is open: the terminal shows the main screen and its cursor.
MenuIdle ==
    /\ KeyIdle
    /\ options = 0
    /\ initial = 0
    /\ idx = 0
    /\ typed = <<>>
    /\ screen = [alt |-> FALSE, hidden |-> FALSE]
    /\ choice = <<>>

\* The wizard runs on a terminal.
OnTerminal == stdinTty = TRUE /\ stdoutTty = TRUE

InitProgram ==
    /\ answered = <<>>
    /\ mainret = <<>>
    /\ strategy = "none"
    /\ handler = "prior"
    /\ old_handler = "prior"
    /\ count = 0
    /\ suppress = [on |-> FALSE, in_tb |-> FALSE]
    /\ acc = <<>>
    /\ last_len = 0
    /\ text = <<>>
    /\ raising = FALSE
    /\ spawned = 0
    /\ child = "none"
    /\ status = <<>>
    /\ pending = {}
    /\ chan = <<>>
    /\ wrote = <<>>
    /\ out = <<>>
    /\ sent = <<>>
    /\ notices = 0
    /\ summary = <<>>
    /\ errors = 0
    /\ orphans = 0
    /\ retcode = <<>>
    /\ wizardExit = <<>>

Init ==
    /\ InitProgram
    /\ MenuIdle
    /\ OnTerminal
    /\ pc = "start"
    /\ calls = 1
    /\ ptyForkOk \in BOOLEAN
    /\ hasKillpg \in BOOLEAN
    /\ execOk \in BOOLEAN
    /\ execErrno \in (IF execOk THEN {"none"} ELSE ExecErrors)
    /\ repertoire = PlainBytes
    /\ budget = MaxOut
    /\ faults \in 0..MaxFaults
    /\ intrLeft = MaxInterrupts

\* ------------------------------------------------- run_and_stream: PTY
\* run_and_stream calls _run_with_pty; pty.fork() succeeds, the window size
\* is set and the PTY SIGINT handler is installed, the handler found there
\* being kept in old_handler.
PtySpawn ==
    /\ pc = "start"
    /\ ptyForkOk
    /\ strategy' = "pty"
    /\ spawned' = spawned + 1
    /\ child' = "running"
    /\ old_handler' = handler
    /\ handler' = "pty"
    /\ count' = 0
    /\ pc' = "pty_select"
    /\ UNCHANGED <<envVars, mainVars, menuVars, calls, budget, faults, intrLeft, relayVars, raising, status,
                   pending, chan, wrote, out, sent, notices, summary, errors,
                   orphans, retcode, wizardExit>>

\* pty.fork() raises; run_and_stream swallows the exception and goes on
\* with the pipe strategy.
PtyUnavailable ==
    /\ pc = "start"
    /\ ~ptyForkOk
    /\ pc' = "pipe_start"
    /\ UNCHANGED <<envVars, mainVars, menuVars, calls, old_handler, budget, faults, intrLeft, strategy, handler, count,
                   relayVars, raising, spawned, childVars, out, sent, notices,
                   summary, errors, orphans, retcode, wizardExit>>

\* _stream_pty_output: select.select([fd], [], [], 0.1).  The master side is
\* readable when bytes are buffered or when the slave side has been closed.
PtySelect ==
    /\ pc = "pty_select"
    /\ pc' = IF chan /= <<>> \/ child /= "running" THEN "pty_read" ELSE "pty_waitpid"
    /\ UNCHANGED <<envVars, mainVars, menuVars, calls, old_handler, budget, faults, intrLeft, strategy, handler, count,
                   relayVars, raising, spawned, child, status, pending, chan,
                   wrote, out, sent, notices, summary, errors, orphans, retcode,
                   wizardExit>>

\* os.read returns bytes, which are written to standard output unchanged.
PtyReadData ==
    /\ pc = "pty_read"
    /\ chan /= <<>>
    /\ out' = out \o Take(chan, ReadSize)
    /\ chan' = Drop(chan, ReadSize)
    /\ pc' = "pty_waitpid"
    /\ UNCHANGED <<envVars, mainVars, menuVars, calls, old_handler, budget, faults, intrLeft, strategy, handler, count,
                   relayVars, raising, spawned, child, status, pending, wrote,
                   sent, notices, summary, errors, orphans, retcode, wizardExit>>

\* os.read returns b"" or raises OSError (the slave side is closed and no
\* byte is buffered): `if not data: return None`, back to the loop head.
PtyReadEof ==
    /\ pc = "pty_read"
    /\ chan = <<>>
    /\ pc' = "pty_select"
    /\ UNCHANGED <<envVars, mainVars, menuVars, calls, old_handler, budget, faults, intrLeft, strategy, handler, count,
                   relayVars, raising, spawned, child, status, pending, chan,
                   wrote, out, sent, notices, summary, errors, orphans, retcode,
                   wizardExit>>

\* sys.stdout.buffer.write raises: the finally of _run_with_pty restores the
\* handler, run_and_stream swallows the exception and goes on with the pipe
\* strategy.  The PTY child is left behind, never waited for.
PtyWriteFault ==
    /\ pc = "pty_read"
    /\ chan /= <<>>
    /\ faults > 0
    /\ faults' = faults - 1
    /\ handler' = old_handler
    /\ orphans' = orphans + 1
    /\ child' = "none"
    /\ status' = <<>>
    /\ pending' = {}
    /\ chan' = <<>>
    /\ wrote' = <<>>
    /\ pc' = "pipe_start"
    /\ UNCHANGED <<envVars, mainVars, menuVars, calls, old_handler, budget, intrLeft, strategy, count, relayVars, raising,
                   spawned, out, sent, notices, summary, errors, retcode,
                   wizardExit>>

\* os.waitpid(pid, os.WNOHANG) reports the child's exit: the summary line is
\* printed, the finally restores the handler, the exit code is returned.
PtyChildDone ==
    /\ pc = "pty_waitpid"
    /\ child = "exited"
    /\ child' = "reaped"
    /\ summary' = Append(summary, PtyExitCode(status))
    /\ handler' = old_handler
    /\ retcode' = <<PtyExitCode(status)>>
    /\ pc' = "returned"
    /\ UNCHANGED <<envVars, mainVars, menuVars, calls, old_handler, budget, faults, intrLeft, strategy, count, relayVars,
                   raising, spawned, status, pending, chan, wrote, out, sent,
                   notices, errors, orphans, wizardExit>>

\* os.waitpid(pid, os.WNOHANG) reports a running child: return None.
PtyChildAlive ==
    /\ pc = "pty_waitpid"
    /\ child = "running"
    /\ pc' = "pty_select"
    /\ UNCHANGED <<envVars, mainVars, menuVars, calls, old_handler, budget, faults, intrLeft, strategy, handler, count,
                   relayVars, raising, spawned, childVars, out, sent, notices,
                   summary, errors, orphans, retcode, wizardExit>>


\* ------------------------------------------------ run_and_stream: pipe
\* _create_subprocess succeeds: the child runs in its own session, the
\* suppress_traceback dict is fresh and _setup_signal_handler installs the
\* pipe SIGINT handler with a fresh counter.
PipeSpawn ==
    /\ pc = "pipe_start"
    /\ execOk
    /\ strategy' = "pipe"
    /\ spawned' = spawned + 1
    /\ child' = "running"
    /\ status' = <<>>
    /\ pending' = {}
    /\ chan' = <<>>
    /\ wrote' = <<>>
    /\ suppress' = [on |-> FALSE, in_tb |-> FALSE]
    /\ handler' = "pipe"
    /\ count' = 0
    /\ acc' = <<>>
    /\ last_len' = 0
    /\ text' = <<>>
    /\ pc' = "pipe_read"
    /\ UNCHANGED <<envVars, mainVars, menuVars, calls, old_handler, budget, faults, intrLeft, raising, out, sent, notices,
                   summary, errors, orphans, retcode, wizardExit>>

\* _create_subprocess raises FileNotFoundError: the message is printed and
\* 127 is returned.
PipeSpawnFailure ==
    /\ pc = "pipe_start"
    /\ ~execOk
    /\ execErrno = "ENOENT"
    /\ strategy' = "pipe"
    /\ errors' = errors + 1
    /\ retcode' = <<SpawnFailureCode>>
    /\ pc' = "returned"
    /\ UNCHANGED <<envVars, mainVars, menuVars, calls, old_handler, budget, faults, intrLeft, handler, count, relayVars,
                   raising, spawned, childVars, out, sent, notices, summary,
                   orphans, wizardExit>>

\* _create_subprocess raises PermissionError (the file is there and cannot
\* be executed), which `except FileNotFoundError` does not catch: the
\* exception leaves run_and_stream, no child was started.
PipeSpawnRaise ==
    /\ pc = "pipe_start"
    /\ ~execOk
    /\ execErrno = "EACCES"
    /\ strategy' = "pipe"
    /\ pc' = "raised"
    /\ UNCHANGED <<envVars, mainVars, menuVars, calls, old_handler, budget, faults, intrLeft,
                   handler, count, relayVars, raising, spawned, childVars, out,
                   sent, notices, summary, errors, orphans, retcode, wizardExit>>

\* proc.stdout.read(8192) on the unbuffered pipe returns the bytes that are
\* there, at most one read buffer; chunk.decode gives the text to process.
PipeReadChunk ==
    /\ pc = "pipe_read"
    /\ chan /= <<>>
    /\ text' = Take(chan, ReadSize)
    /\ chan' = Drop(chan, ReadSize)
    /\ pc' = "pipe_char"
    /\ UNCHANGED <<envVars, mainVars, menuVars, calls, old_handler, budget, faults, intrLeft, strategy, handler, count,
                   suppress, acc, last_len, raising, spawned, child, status,
                   pending, wrote, out, sent, notices, summary, errors, orphans,
                   retcode, wizardExit>>

\* proc.stdout.read returns b"" (end of stream): `if not chunk: break`.
PipeReadEof ==
    /\ pc = "pipe_read"
    /\ chan = <<>>
    /\ child /= "running"
    /\ pc' = "pipe_wait"
    /\ UNCHANGED <<envVars, mainVars, menuVars, calls, old_handler, budget, faults, intrLeft, strategy, handler, count,
                   relayVars, raising, spawned, childVars, out, sent, notices,
                   summary, errors, orphans, retcode, wizardExit>>

\* Where _stream_output goes after one character of the chunk.
AfterChar == IF Tail(text) = <<>> THEN "pipe_flush" ELSE "pipe_char"

\* sys.stdout.write(w) inside _stream_output: either the write succeeds, or
\* (w not empty, a fault left) it raises and the finally of run_and_stream
\* is entered.  `ok` is what else the branch does when the write succeeded.
RelayWrite(w, ok) ==
    \/ /\ out' = out \o w
       /\ ok
       /\ UNCHANGED <<faults, raising>>
    \/ /\ w /= <<>>
       /\ faults > 0
       /\ faults' = faults - 1
       /\ raising' = TRUE
       /\ pc' = "pipe_wait"
       /\ UNCHANGED <<out, suppress, acc, last_len, text>>

\* for ch in text: ch == "\r"
PipeCr ==
    /\ pc = "pipe_char"
    /\ text /= <<>>
    /\ Head(text) = CR
    /\ RelayWrite(CrWrite(acc, suppress),
                  /\ last_len' = Len(acc)
                  /\ acc' = <<>>
                  /\ text' = Tail(text)
                  /\ pc' = AfterChar
                  /\ UNCHANGED suppress)
    /\ UNCHANGED <<envVars, mainVars, menuVars, calls, old_handler, budget, intrLeft, strategy, handler, count, spawned,
                   child, status, pending, chan, wrote, sent, notices, summary,
                   errors, orphans, retcode, wizardExit>>

\* for ch in text: ch == "\n"
PipeLf ==
    /\ pc = "pipe_char"
    /\ text /= <<>>
    /\ Head(text) = LF
    /\ RelayWrite(LfWrite(acc, last_len, suppress),
                  /\ suppress' = ProcessTracebackLine(acc, suppress).sup
                  /\ last_len' = 0
                  /\ acc' = <<>>
                  /\ text' = Tail(text)
                  /\ pc' = AfterChar)
    /\ UNCHANGED <<envVars, mainVars, menuVars, calls, old_handler, budget, intrLeft, strategy, handler, count, spawned,
                   child, status, pending, chan, wrote, sent, notices, summary,
                   errors, orphans, retcode, wizardExit>>

\* for ch in text: any other character is appended to acc.
PipeOther ==
    /\ pc = "pipe_char"
    /\ text /= <<>>
    /\ Head(text) \notin {CR, LF}
    /\ acc' = Append(acc, Head(text))
    /\ text' = Tail(text)
    /\ pc' = AfterChar
    /\ UNCHANGED <<envVars, mainVars, menuVars, calls, old_handler, budget, faults, intrLeft, strategy, handler, count,
                   suppress, last_len, raising, spawned, childVars, out, sent,
                   notices, summary, errors, orphans, retcode, wizardExit>>

\* After the characters of a chunk: `if acc:` writes the pending line,
\* padded, and records its length.
PipeFlush ==
    /\ pc = "pipe_flush"
    /\ RelayWrite(FlushWrite(acc, last_len, suppress),
                  /\ last_len' = (IF acc /= <<>> THEN Len(acc) ELSE last_len)
                  /\ pc' = "pipe_read"
                  /\ UNCHANGED <<suppress, acc, text>>)
    /\ UNCHANGED <<envVars, mainVars, menuVars, calls, old_handler, budget, intrLeft, strategy, handler, count, spawned,
                   child, status, pending, chan, wrote, sent, notices, summary,
                   errors, orphans, retcode, wizardExit>>

\* finally: proc.wait() returns once the child has exited; the summary line
\* is written; then the exception goes on, or the code is returned.
PipeWait ==
    /\ pc = "pipe_wait"
    /\ child = "exited"
    /\ child' = "reaped"
    /\ summary' = Append(summary, PopenReturnCode(status))
    /\ IF raising
       THEN pc' = "raised" /\ UNCHANGED retcode
       ELSE pc' = "returned" /\ retcode' = <<PipeReturnValue(status)>>
    /\ UNCHANGED <<envVars, mainVars, menuVars, calls, old_handler, budget, faults, intrLeft, strategy, handler, count,
                   relayVars, raising, spawned, status, pending, chan, wrote, out,
                   sent, notices, errors, orphans, wizardExit>>

\* ------------------------------------------------------------------ main
\* return run_and_stream(program, args, cwd)
MainReturnValue(code) == code

\* main returns the code of run_and_stream and __main__ passes it to sys.exit.
MainReturn ==
    /\ pc = "returned"
    /\ mainret' = <<MainReturnValue(retcode[1])>>
    /\ wizardExit' = <<ProcessExitStatus(MainReturnValue(retcode[1]))>>
    /\ pc' = "exited"
    /\ UNCHANGED <<envVars, answered, menuVars, calls, old_handler, budget, faults, intrLeft, strategy, handler, count,
                   relayVars, raising, spawned, childVars, out, sent, notices,
                   summary, errors, orphans, retcode>>

\* An exception other than KeyboardInterrupt leaves main: the interpreter
\* prints it and exits with status 1.
MainRaise ==
    /\ pc = "raised"
    /\ wizardExit' = <<UncaughtExceptionCode>>
    /\ pc' = "exited"
    /\ UNCHANGED <<envVars, mainVars, menuVars, calls, old_handler, budget, faults, intrLeft, strategy, handler, count,
                   relayVars, raising, spawned, childVars, out, sent, notices,
                   summary, errors, orphans, retcode>>

\* ----------------------------------------------------------------- child
\* The child writes one byte to its terminal or pipe.
ChildWrite ==
    /\ child = "running"
    /\ execOk
    /\ budget > 0
    /\ \E c \in repertoire :
          /\ chan' = Append(chan, c)
          /\ wrote' = Append(wrote, c)
    /\ budget' = budget - 1
    /\ UNCHANGED <<pc, envVars, mainVars, menuVars, calls, old_handler, faults, intrLeft, strategy, handler, count,
                   relayVars, raising, spawned, child, status, pending, out, sent,
                   notices, summary, errors, orphans, retcode, wizardExit>>

\* The child exits by itself; a child whose exec failed calls os._exit(127).
ChildExit ==
    /\ child = "running"
    /\ \E s \in (IF execOk THEN ExitCodes ELSE {SpawnFailureCode}) :
          status' = <<"exit", s>>
    /\ child' = "exited"
    /\ UNCHANGED <<pc, envVars, mainVars, menuVars, calls, old_handler, budget, faults, intrLeft, strategy, handler, count,
                   relayVars, raising, spawned, pending, chan, wrote, out, sent,
                   notices, summary, errors, orphans, retcode, wizardExit>>

\* The child is terminated by a signal that was delivered to it.
ChildKilled ==
    /\ child = "running"
    /\ \E sig \in pending : status' = <<"signal", sig>>
    /\ child' = "exited"
    /\ UNCHANGED <<pc, envVars, mainVars, menuVars, calls, old_handler, budget, faults, intrLeft, strategy, handler, count,
                   relayVars, raising, spawned, pending, chan, wrote, out, sent,
                   notices, summary, errors, orphans, retcode, wizardExit>>

\* ------------------------------------------------------------- interrupts
\* SIGINT with the handler that was there before the run: KeyboardInterrupt
\* is raised in main and __main__ exits with 130.
InterruptPrior ==
    /\ intrLeft > 0
    /\ pc /= "exited"
    /\ handler = "prior"
    /\ intrLeft' = intrLeft - 1
    /\ wizardExit' = <<KeyboardInterruptCode>>
    /\ pc' = "exited"
    /\ UNCHANGED <<envVars, mainVars, menuVars, calls, old_handler, budget, faults, strategy, handler, count, relayVars,
                   raising, spawned, childVars, out, sent, notices, summary,
                   errors, orphans, retcode>>

\* A counter that stops at 2 (what the handlers do not do).
NextCountCapped(c) == Min(c + 1, 2)

\* interrupted["count"] += 1
NextCount(c) == c + 1

\* A pipe handler that kills at once.
PipeKillCallForced(n) == KillCall(ProcKillTarget, SIGKILL)

\* The signal a handler sends on an interrupt, given the new counter value.
PipeKillCall(n) ==
    IF n = 1 THEN KillCall(GracefulTarget, SIGTERM)
    ELSE KillCall(ProcKillTarget, SIGKILL)

PtyKillCall(n) ==
    IF n = 1 THEN KillCall(KillProcessTarget, SIGTERM)
    ELSE KillCall(KillProcessTarget, SIGKILL)

\* _setup_signal_handler.handle_sigint
InterruptPipe ==
    /\ intrLeft > 0
    /\ pc /= "exited"
    /\ handler = "pipe"
    /\ intrLeft' = intrLeft - 1
    /\ count' = NextCount(count)
    /\ notices' = (IF count' = 1 THEN notices + 1 ELSE notices)
    /\ suppress' = (IF count' = 1 THEN [suppress EXCEPT !.on = TRUE] ELSE suppress)
    /\ sent' = Append(sent, PipeKillCall(count'))
    /\ pending' = Deliver(PipeKillCall(count').sig)
    /\ UNCHANGED <<pc, envVars, mainVars, menuVars, calls, old_handler, budget, faults, strategy, handler, acc, last_len,
                   text, raising, spawned, child, status, chan, wrote, out,
                   summary, errors, orphans, retcode, wizardExit>>

\* _setup_pty_signal_handler.handle_sigint
InterruptPty ==
    /\ intrLeft > 0
    /\ pc /= "exited"
    /\ handler = "pty"
    /\ intrLeft' = intrLeft - 1
    /\ count' = NextCount(count)
    /\ notices' = (IF count' = 1 THEN notices + 1 ELSE notices)
    /\ sent' = Append(sent, PtyKillCall(count'))
    /\ pending' = Deliver(PtyKillCall(count').sig)
    /\ UNCHANGED <<pc, envVars, mainVars, menuVars, calls, old_handler, budget, faults, strategy, handler, relayVars,
                   raising, spawned, child, status, chan, wrote, out, summary,
                   errors, orphans, retcode, wizardExit>>

\* ------------------------------------------------------------------ Next
Next ==
    \/ PtySpawn \/ PtyUnavailable \/ PtySelect \/ PtyReadData \/ PtyReadEof
    \/ PtyWriteFault \/ PtyChildDone \/ PtyChildAlive
    \/ PipeSpawn \/ PipeSpawnFailure \/ PipeSpawnRaise
    \/ PipeReadChunk \/ PipeReadEof
    \/ PipeCr \/ PipeLf \/ PipeOther \/ PipeFlush \/ PipeWait
    \/ MainReturn \/ MainRaise
    \/ ChildWrite \/ ChildExit \/ ChildKilled
    \/ InterruptPrior \/ InterruptPipe \/ InterruptPty

Spec == Init /\ [][Next]_vars


\* ------------------------------------------------------------ the relay
\* The pipe strategy alone, for a child that writes longer streams: the
\* invocation has found the PTY unavailable and is about to spawn the child.
RelayInit ==
    /\ InitProgram
    /\ MenuIdle
    /\ OnTerminal
    /\ pc = "pipe_start"
    /\ calls = 1
    /\ ptyForkOk = FALSE
    /\ hasKillpg = TRUE
    /\ execOk = TRUE
    /\ execErrno = "none"
    /\ repertoire = TraceBytes
    /\ budget = RelayMaxOut
    /\ faults = 0
    /\ intrLeft = RelayMaxInterrupts

RelayNext ==
    \/ PipeSpawn \/ PipeReadChunk \/ PipeReadEof
    \/ PipeCr \/ PipeLf \/ PipeOther \/ PipeFlush \/ PipeWait
    \/ MainReturn
    \/ ChildWrite \/ ChildExit \/ ChildKilled
    \/ InterruptPrior \/ InterruptPipe

RelaySpec == RelayInit /\ [][RelayNext]_vars


\* The pipe strategy for a child that draws progress lines and is never
\* interrupted: the relay with suppression inactive.
ProgressInit ==
    /\ InitProgram
    /\ MenuIdle
    /\ OnTerminal
    /\ pc = "pipe_start"
    /\ calls = 1
    /\ ptyForkOk = FALSE
    /\ hasKillpg = TRUE
    /\ execOk = TRUE
    /\ execErrno = "none"
    /\ repertoire = PlainBytes
    /\ budget = ProgressMaxOut
    /\ faults = 0
    /\ intrLeft = 0

ProgressNext ==
    \/ PipeSpawn \/ PipeReadChunk \/ PipeReadEof
    \/ PipeCr \/ PipeLf \/ PipeOther \/ PipeFlush \/ PipeWait
    \/ MainReturn
    \/ ChildWrite \/ ChildExit

ProgressSpec == ProgressInit /\ [][ProgressNext]_vars

\* ------------------------------------------------------- the PTY strategy
\* The PTY strategy alone, with standard output accepting every write.  The
\* supervisor is a running process: each of its steps that stays possible is
\* eventually taken.  Nothing is assumed about the child or the user.
PtyInit ==
    /\ InitProgram
    /\ MenuIdle
    /\ OnTerminal
    /\ pc = "start"
    /\ calls = 1
    /\ ptyForkOk = TRUE
    /\ hasKillpg \in BOOLEAN
    /\ execOk \in BOOLEAN
    /\ execErrno \in (IF execOk THEN {"none"} ELSE ExecErrors)
    /\ repertoire = PlainBytes
    /\ budget = MaxOut
    /\ faults = 0
    /\ intrLeft = MaxInterrupts

PtySupervisor ==
    \/ PtySpawn \/ PtySelect \/ PtyReadData \/ PtyReadEof
    \/ PtyChildDone \/ PtyChildAlive \/ MainReturn

PtyNext ==
    \/ PtySpawn \/ PtySelect \/ PtyReadData \/ PtyReadEof
    \/ PtyChildDone \/ PtyChildAlive \/ MainReturn
    \/ ChildWrite \/ ChildExit \/ ChildKilled
    \/ InterruptPrior \/ InterruptPty

PtyFairSpec == PtyInit /\ [][PtyNext]_vars /\ WF_vars(PtySupervisor)


\* ------------------------------------------------------------ the menu
\* What read_key returns: the four arrows, Enter, Escape, Space, or the
\* character read ("x" stands for every character that is not named here).
KeyEvents == {"UP", "DOWN", "LEFT", "RIGHT", "ENTER", "ESC", "SPACE",
              "k", "j", "h", "l", "q", "x"}

\* The lines input() can return to prompt_choice, stripped: the empty line,
\* decimal numbers, "x" for every line that is not made of digits, and "^2"
\* for a line made of digit characters that are not decimal (superscript
\* two, for one).
Digits == <<"0", "1", "2", "3", "4", "5">>
InputLines == {"", "x", "^2"} \cup {Digits[k] : k \in 1..Len(Digits)}

\* raw.isdigit(), and int(raw): a number, or ValueError
IsDigit(raw) == raw = "^2" \/ \E k \in 1..Len(Digits) : Digits[k] = raw
IntRaises(raw) == raw = "^2"
IntOf(raw) == (CHOOSE k \in 1..Len(Digits) : Digits[k] = raw) - 1

\* A LEFT that wraps around like UP.
HandleNavigationKeyWrapLeft(key, i, max_index) ==
    IF key \in {"UP", "k", "LEFT", "h"} THEN <<(i - 1) % (max_index + 1)>>
    ELSE IF key \in {"DOWN", "j"} THEN <<(i + 1) % (max_index + 1)>>
    ELSE IF key \in {"RIGHT", "l"} THEN <<Min(max_index, i + 1)>>
    ELSE <<>>

\* A DOWN that stops at the last option like RIGHT.
HandleNavigationKeyClampDown(key, i, max_index) ==
    IF key \in {"UP", "k"} THEN <<(i - 1) % (max_index + 1)>>
    ELSE IF key \in {"LEFT", "h"} THEN <<Max(0, i - 1)>>
    ELSE IF key \in {"DOWN", "j", "RIGHT", "l"} THEN <<Min(max_index, i + 1)>>
    ELSE <<>>

\* _handle_navigation_key: <<new index>>, or <<>> for None.
HandleNavigationKey(key, i, max_index) ==
    IF key \in {"UP", "k"} THEN <<(i - 1) % (max_index + 1)>>
    ELSE IF key \in {"DOWN", "j"} THEN <<(i + 1) % (max_index + 1)>>
    ELSE IF key \in {"LEFT", "h"} THEN <<Max(0, i - 1)>>
    ELSE IF key \in {"RIGHT", "l"} THEN <<Min(max_index, i + 1)>>
    ELSE <<>>

\* A loop in which Space selects like Enter.
KeyEffectSpaceSelects(key, i, max_index) ==
    IF HandleNavigationKey(key, i, max_index) /= <<>> THEN "move"
    ELSE IF key \in {"ENTER", "SPACE"} THEN "return"
    ELSE IF key \in {"ESC", "q"} THEN "exit"
    ELSE "ignore"

\* The branch the loop of choose_keyed takes for a key.
KeyEffect(key, i, max_index) ==
    IF HandleNavigationKey(key, i, max_index) /= <<>> THEN "move"
    ELSE IF key = "ENTER" THEN "return"
    ELSE IF key \in {"ESC", "q"} THEN "exit"
    ELSE "ignore"

\* enter_alt_screen: "\x1b[?1049h" ... "\x1b[?25l"
EnterAltScreen(scr) == [alt |-> TRUE, hidden |-> TRUE]

\* An exit_alt_screen that leaves the cursor hidden.
ExitAltScreenKeepCursor(scr) == [alt |-> FALSE, hidden |-> scr.hidden]

\* exit_alt_screen: "\x1b[?25h" then "\x1b[?1049l"
ExitAltScreen(scr) == [alt |-> FALSE, hidden |-> FALSE]

\* choose_keyed on a terminal: the alternate screen is entered and the menu
\* is rendered; the loop blocks in read_key.
MenuInteractive ==
    /\ pc = "menu_call"
    /\ stdinTty /\ stdoutTty
    /\ screen' = EnterAltScreen(screen)
    /\ pc' = "menu_key"
    /\ UNCHANGED <<envVars, mainVars, calls, old_handler, options, initial, idx, typed,
                   choice, keyVars, budget, faults, intrLeft, strategy, handler, count,
                   relayVars, raising, spawned, childVars, out, sent, notices,
                   summary, errors, orphans, retcode, wizardExit>>

\* choose_keyed without a terminal: prompt_choice(question, options,
\* default_index=idx) prints the numbered list and waits for a line.
MenuFallback ==
    /\ pc = "menu_call"
    /\ ~(stdinTty /\ stdoutTty)
    /\ pc' = "menu_prompt"
    /\ UNCHANGED <<envVars, mainVars, calls, old_handler, menuVars, budget, faults,
                   intrLeft, strategy, handler, count, relayVars, raising,
                   spawned, childVars, out, sent, notices, summary, errors,
                   orphans, retcode, wizardExit>>

\* One turn of the loop of choose_keyed: read_key returns a key; the index
\* moves, or the index is returned, or sys.exit(0) ends the program, or
\* nothing happens and the menu is rendered again.  The finally clause runs
\* exit_alt_screen whenever the loop is left.
MenuKey ==
    /\ pc = "menu_key"
    /\ Len(typed) < MaxKeys
    /\ \E key \in KeyEvents :
          LET effect == KeyEffect(key, idx, options - 1)
          IN /\ typed' = Append(typed, key)
             /\ idx' = (IF effect = "move"
                        THEN HandleNavigationKey(key, idx, options - 1)[1]
                        ELSE idx)
             /\ choice' = (IF effect = "return" THEN <<idx>> ELSE choice)
             /\ wizardExit' = (IF effect = "exit" THEN <<0>> ELSE wizardExit)
             /\ screen' = (IF effect \in {"return", "exit"}
                           THEN ExitAltScreen(screen) ELSE screen)
             /\ pc' = (IF effect = "return" THEN "menu_returned"
                       ELSE IF effect = "exit" THEN "exited"
                       ELSE "menu_key")
    /\ UNCHANGED <<envVars, mainVars, calls, old_handler, options, initial, keyVars,
                   budget, faults, intrLeft, strategy, handler, count, relayVars, raising,
                   spawned, childVars, out, sent, notices, summary, errors,
                   orphans, retcode>>

\* read_key raises (termios.tcgetattr or the read fails): the finally clause
\* runs exit_alt_screen and the exception leaves choose_keyed.
MenuKeyError ==
    /\ pc = "menu_key"
    /\ screen' = ExitAltScreen(screen)
    /\ pc' = "raised"
    /\ UNCHANGED <<envVars, mainVars, calls, old_handler, options, initial, idx, typed,
                   choice, keyVars, budget, faults, intrLeft, strategy, handler, count,
                   relayVars, raising, spawned, childVars, out, sent, notices,
                   summary, errors, orphans, retcode, wizardExit>>

\* One turn of the loop of prompt_choice: an empty line returns the default
\* index, a number of the list returns its index, digits int() does not
\* take raise ValueError, every other line asks again.
PromptLine ==
    /\ pc = "menu_prompt"
    /\ Len(typed) < MaxKeys
    /\ \E raw \in InputLines :
          /\ typed' = Append(typed, raw)
          /\ IF raw = ""
             THEN choice' = <<idx>> /\ pc' = "menu_returned"
             ELSE IF IsDigit(raw) /\ IntRaises(raw)
             THEN pc' = "raised" /\ UNCHANGED choice
             ELSE IF IsDigit(raw) /\ 0 <= IntOf(raw) - 1 /\ IntOf(raw) - 1 < options
             THEN choice' = <<IntOf(raw) - 1>> /\ pc' = "menu_returned"
             ELSE UNCHANGED <<choice, pc>>
    /\ UNCHANGED <<envVars, mainVars, calls, old_handler, options, initial, idx, screen,
                   keyVars, budget, faults, intrLeft, strategy, handler, count, relayVars,
                   raising, spawned, childVars, out, sent, notices, summary,
                   errors, orphans, retcode, wizardExit>>

\* input() raises EOFError at the end of standard input.
PromptEof ==
    /\ pc = "menu_prompt"
    /\ pc' = "raised"
    /\ UNCHANGED <<envVars, mainVars, calls, old_handler, menuVars, budget, faults,
                   intrLeft, strategy, handler, count, relayVars, raising,
                   spawned, childVars, out, sent, notices, summary, errors,
                   orphans, retcode, wizardExit>>

\* One call of choose_keyed, with any index argument the caller may pass.
MenuInit ==
    /\ InitProgram
    /\ KeyIdle
    /\ pc = "menu_call"
    /\ calls = 0
    /\ stdinTty \in BOOLEAN
    /\ stdoutTty \in BOOLEAN
    /\ options \in 1..MaxOptions
    /\ initial \in (0 - 1)..options
    /\ idx = initial
    /\ typed = <<>>
    /\ screen = [alt |-> FALSE, hidden |-> FALSE]
    /\ choice = <<>>
    /\ ptyForkOk = TRUE
    /\ hasKillpg = TRUE
    /\ execOk = TRUE
    /\ execErrno = "none"
    /\ repertoire = PlainBytes
    /\ budget = 0
    /\ faults = 0
    /\ intrLeft = 0

MenuNext ==
    \/ MenuInteractive \/ MenuFallback \/ MenuKey \/ MenuKeyError
    \/ PromptLine \/ PromptEof \/ MainRaise

MenuSpec == MenuInit /\ [][MenuNext]_vars


\* ---------------------------------------------------------------- read_key

\* The escape byte "\x1b".
Esc == "^["
\* The bytes a user types: escape, "[", the final bytes of the arrow
\* sequences, carriage return, line feed, space and one other character.
KeyBytes == {Esc, "[", "A", "B", "C", "D", CR, LF, SP, "x"}
\* What sys.stdin.read(1) returns at end of file.
NoByte == ""
\* The attributes a terminal may have when read_key is called.
TermModes == {"cooked", "cbreak"}

\* A decoding that takes ESC [ C for LEFT and ESC [ D for RIGHT.
ReadKeySwapped(read) ==
    IF read[1] = Esc
    THEN IF Len(read) = 3 /\ read[2] = "["
         THEN IF read[3] = "A" THEN "UP"
              ELSE IF read[3] = "B" THEN "DOWN"
              ELSE IF read[3] = "C" THEN "LEFT"
              ELSE IF read[3] = "D" THEN "RIGHT"
              ELSE "ESC"
         ELSE "ESC"
    ELSE IF read[1] \in {CR, LF} THEN "ENTER"
    ELSE IF read[1] = SP THEN "SPACE"
    ELSE read[1]

\* The value read_key returns after its reads returned ch1, ch2 and ch3.
ReadKey(read) ==
    IF read[1] = Esc
    THEN IF Len(read) = 3 /\ read[2] = "["
         THEN IF read[3] = "A" THEN "UP"
              ELSE IF read[3] = "B" THEN "DOWN"
              ELSE IF read[3] = "C" THEN "RIGHT"
              ELSE IF read[3] = "D" THEN "LEFT"
              ELSE "ESC"
         ELSE "ESC"
    ELSE IF read[1] \in {CR, LF} THEN "ENTER"
    ELSE IF read[1] = SP THEN "SPACE"
    ELSE read[1]

\* read_key goes on to read another byte: after ESC, and after ESC "[".
ReadsMore(read) == read = <<Esc>> \/ read = <<Esc, "[">>

\* A finally clause that leaves the terminal as it is.
RestoreAttrsNever(saved, current) == current

\* finally: termios.tcsetattr(fd, termios.TCSADRAIN, old)
RestoreAttrs(saved, current) == saved

\* The user types one byte.
KeyType ==
    /\ pc \in {"key_call", "key_read", "key_returned"}
    /\ bytesLeft > 0
    /\ ~eof
    /\ \E b \in KeyBytes : keybuf' = Append(keybuf, b)
    /\ bytesLeft' = bytesLeft - 1
    /\ UNCHANGED <<pc, envVars, mainVars, calls, old_handler, options, initial, idx,
                   typed, screen, choice, eof, ch, retkey, tattr, old, budget,
                   faults, intrLeft, strategy, handler, count, relayVars,
                   raising, spawned, childVars, out, sent, notices, summary,
                   errors, orphans, retcode, wizardExit>>

\* Standard input reaches end of file: once the typed bytes are read, the
\* reads return "".
KeyHangup ==
    /\ pc \in {"key_call", "key_read"}
    /\ ~eof
    /\ eof' = TRUE
    /\ UNCHANGED <<pc, envVars, mainVars, calls, old_handler, options, initial, idx,
                   typed, screen, choice, keybuf, bytesLeft, ch, retkey, tattr,
                   old, budget, faults, intrLeft, strategy, handler, count,
                   relayVars, raising, spawned, childVars, out, sent, notices,
                   summary, errors, orphans, retcode, wizardExit>>

\* old = termios.tcgetattr(fd), then try: tty.setraw(fd); the first read is
\* next.
KeyEnter ==
    /\ pc = "key_call"
    /\ old' = tattr
    /\ tattr' = "raw"
    /\ pc' = "key_read"
    /\ UNCHANGED <<envVars, mainVars, calls, old_handler, options, initial, idx, typed,
                   screen, choice, keybuf, eof, bytesLeft, ch, retkey, budget,
                   faults, intrLeft, strategy, handler, count, relayVars,
                   raising, spawned, childVars, out, sent, notices, summary,
                   errors, orphans, retcode, wizardExit>>

\* termios.tcgetattr raises termios.error: the call is before the try, the
\* terminal was not touched and nothing is restored.
KeyAttrError ==
    /\ pc = "key_call"
    /\ pc' = "raised"
    /\ UNCHANGED <<envVars, mainVars, calls, old_handler, options, initial, idx, typed,
                   screen, choice, keyVars, budget, faults, intrLeft, strategy,
                   handler, count, relayVars, raising, spawned, childVars, out,
                   sent, notices, summary, errors, orphans, retcode,
                   wizardExit>>

\* tty.setraw raises, having changed the attributes or not; the finally
\* clause runs.
KeySetRawError ==
    /\ pc = "key_call"
    /\ old' = tattr
    /\ \E left \in {tattr, "raw"} : tattr' = RestoreAttrs(tattr, left)
    /\ pc' = "raised"
    /\ UNCHANGED <<envVars, mainVars, calls, old_handler, options, initial, idx, typed,
                   screen, choice, keybuf, eof, bytesLeft, ch, retkey, budget,
                   faults, intrLeft, strategy, handler, count, relayVars,
                   raising, spawned, childVars, out, sent, notices, summary,
                   errors, orphans, retcode, wizardExit>>

\* sys.stdin.read(1) returns: the next byte typed, or "" at end of file; it
\* blocks while there is neither.  After ESC, and after ESC "[", read_key
\* reads again; otherwise it returns the key and the finally clause runs.
KeyReadByte ==
    /\ pc = "key_read"
    /\ keybuf /= <<>> \/ eof
    /\ LET b == IF keybuf /= <<>> THEN Head(keybuf) ELSE NoByte
           read == Append(ch, b)
       IN /\ ch' = read
          /\ keybuf' = IF keybuf /= <<>> THEN Tail(keybuf) ELSE keybuf
          /\ IF ReadsMore(read)
             THEN UNCHANGED <<pc, retkey, tattr>>
             ELSE /\ retkey' = <<ReadKey(read)>>
                  /\ tattr' = RestoreAttrs(old, tattr)
                  /\ pc' = "key_returned"
    /\ UNCHANGED <<envVars, mainVars, calls, old_handler, options, initial, idx, typed,
                   screen, choice, eof, bytesLeft, old, budget, faults,
                   intrLeft, strategy, handler, count, relayVars, raising,
                   spawned, childVars, out, sent, notices, summary, errors,
                   orphans, retcode, wizardExit>>

\* sys.stdin.read(1) raises; the finally clause runs.
KeyReadError ==
    /\ pc = "key_read"
    /\ tattr' = RestoreAttrs(old, tattr)
    /\ pc' = "raised"
    /\ UNCHANGED <<envVars, mainVars, calls, old_handler, options, initial, idx, typed,
                   screen, choice, keybuf, eof, bytesLeft, ch, retkey, old,
                   budget, faults, intrLeft, strategy, handler, count,
                   relayVars, raising, spawned, childVars, out, sent, notices,
                   summary, errors, orphans, retcode, wizardExit>>

\* One call of read_key on a terminal in any of its modes, while the user
\* types.
KeyInit ==
    /\ InitProgram
    /\ pc = "key_call"
    /\ calls = 0
    /\ stdinTty = TRUE
    /\ stdoutTty = TRUE
    /\ options = 0
    /\ initial = 0
    /\ idx = 0
    /\ typed = <<>>
    /\ screen = [alt |-> FALSE, hidden |-> FALSE]
    /\ choice = <<>>
    /\ keybuf = <<>>
    /\ eof = FALSE
    /\ bytesLeft = MaxBytes
    /\ ch = <<>>
    /\ retkey = <<>>
    /\ tattr \in TermModes
    /\ old = "unset"
    /\ ptyForkOk = TRUE
    /\ hasKillpg = TRUE
    /\ execOk = TRUE
    /\ execErrno = "none"
    /\ repertoire = PlainBytes
    /\ budget = 0
    /\ faults = 0
    /\ intrLeft = 0

\* The steps of read_key itself.
KeyReader == KeyEnter \/ KeyReadByte

KeyNext ==
    \/ KeyType \/ KeyHangup \/ KeyEnter \/ KeyAttrError \/ KeySetRawError
    \/ KeyReadByte \/ KeyReadError

\* read_key takes each step it can take: a read returns when a byte is there.
KeyFairSpec == KeyInit /\ [][KeyNext]_vars /\ WF_vars(KeyReader)


\* --------------------------------------------- the menu reading its keys
\* The byte "\x03" a terminal produces for Ctrl+C.
CtrlC == "^C"

\* The loop of choose_keyed renders the menu and calls read_key.
MenuReadKey ==
    /\ pc = "menu_key"
    /\ ch' = <<>>
    /\ retkey' = <<>>
    /\ old' = "unset"
    /\ pc' = "key_call"
    /\ UNCHANGED <<envVars, mainVars, calls, old_handler, options, initial, idx, typed,
                   screen, choice, keybuf, eof, bytesLeft, tattr, budget,
                   faults, intrLeft, strategy, handler, count, relayVars,
                   raising, spawned, childVars, out, sent, notices, summary,
                   errors, orphans, retcode, wizardExit>>

\* read_key has returned to the loop of choose_keyed: the index moves, or
\* the index is returned, or sys.exit(0) ends the program, or nothing
\* happens and the loop goes on.  The finally clause runs exit_alt_screen
\* whenever the loop is left.
MenuTakeKey ==
    /\ pc = "key_returned"
    /\ LET effect == KeyEffect(retkey[1], idx, options - 1)
       IN /\ typed' = Append(typed, retkey[1])
          /\ idx' = (IF effect = "move"
                     THEN HandleNavigationKey(retkey[1], idx, options - 1)[1]
                     ELSE idx)
          /\ choice' = (IF effect = "return" THEN <<idx>> ELSE choice)
          /\ wizardExit' = (IF effect = "exit" THEN <<0>> ELSE wizardExit)
          /\ screen' = (IF effect \in {"return", "exit"}
                        THEN ExitAltScreen(screen) ELSE screen)
          /\ pc' = (IF effect = "return" THEN "menu_returned"
                    ELSE IF effect = "exit" THEN "exited"
                    ELSE "menu_key")
    /\ UNCHANGED <<envVars, mainVars, calls, old_handler, options, initial, keyVars,
                   budget, faults, intrLeft, strategy, handler, count,
                   relayVars, raising, spawned, childVars, out, sent, notices,
                   summary, errors, orphans, retcode>>

\* The user presses Ctrl+C while a menu is open.  tty.setraw has switched
\* ISIG off: in raw mode the terminal queues the byte "\x03" like any other
\* byte.  Outside read_key the attributes are the saved ones, the terminal
\* sends SIGINT and drops its queue; KeyboardInterrupt leaves choose_keyed
\* through its finally clause and main, and __main__ calls sys.exit(130).
KeyCtrlC ==
    /\ pc \in {"menu_key", "key_call", "key_read", "key_returned"}
    /\ bytesLeft > 0
    /\ bytesLeft' = bytesLeft - 1
    /\ \/ /\ tattr = "raw"
          /\ keybuf' = Append(keybuf, CtrlC)
          /\ UNCHANGED <<pc, screen, wizardExit>>
       \/ /\ tattr /= "raw"
          /\ keybuf' = <<>>
          /\ screen' = ExitAltScreen(screen)
          /\ wizardExit' = <<KeyboardInterruptCode>>
          /\ pc' = "exited"
    /\ UNCHANGED <<envVars, mainVars, calls, old_handler, options, initial, idx, typed,
                   choice, eof, ch, retkey, tattr, old, budget, faults,
                   intrLeft, strategy, handler, count, relayVars, raising,
                   spawned, childVars, out, sent, notices, summary, errors,
                   orphans, retcode>>

\* The first menu of main (two options, idx=0) on a terminal, while the
\* user types.
KeyMenuInit ==
    /\ InitProgram
    /\ pc = "menu_call"
    /\ calls = 0
    /\ stdinTty = TRUE
    /\ stdoutTty = TRUE
    /\ options = 2
    /\ initial = 0
    /\ idx = 0
    /\ typed = <<>>
    /\ screen = [alt |-> FALSE, hidden |-> FALSE]
    /\ choice = <<>>
    /\ keybuf = <<>>
    /\ eof = FALSE
    /\ bytesLeft = MaxBytes
    /\ ch = <<>>
    /\ retkey = <<>>
    /\ tattr = "cooked"
    /\ old = "unset"
    /\ ptyForkOk = TRUE
    /\ hasKillpg = TRUE
    /\ execOk = TRUE
    /\ execErrno = "none"
    /\ repertoire = PlainBytes
    /\ budget = 0
    /\ faults = 0
    /\ intrLeft = 0

\* The steps of the wizard itself.
KeyMenuWizard ==
    MenuInteractive \/ MenuReadKey \/ KeyEnter \/ KeyReadByte \/ MenuTakeKey

KeyMenuNext ==
    \/ MenuInteractive \/ MenuReadKey \/ KeyEnter \/ KeyReadByte
    \/ MenuTakeKey \/ KeyType \/ KeyCtrlC

\* The wizard takes each step it can take; the user types when they like.
KeyMenuFairSpec == KeyMenuInit /\ [][KeyMenuNext]_vars /\ WF_vars(KeyMenuWizard)


\* -------------------------------------------------- the questions of main
\* The prompts of main, in the order of the code: Q1 mode, Q2 path and URL,
\* Q3 language, Q4 overwrite, Q5 burn-in and its two menus, "Run now?".
Questions == {"q_mode", "q_src", "q_url", "q_lang", "q_overwrite", "q_burn",
              "q_use", "q_format", "q_run"}
\* The prompts asked with choose_keyed, and those asked with input().
MenuQuestions == {"q_mode", "q_lang", "q_use", "q_format"}
LineQuestions == Questions \ MenuQuestions

\* What a prompt can return: the index of an option (the first and the last
\* of the list), a yes or a no, a text, and for the URL a text or nothing.
Answers(question) ==
    IF question \in {"q_mode", "q_use", "q_format"} THEN {"0", "1"}
    ELSE IF question = "q_lang" THEN {"0", "8"}
    ELSE IF question \in {"q_overwrite", "q_burn", "q_run"} THEN {"yes", "no"}
    ELSE IF question = "q_url" THEN {"", "url"}
    ELSE {"text"}

\* A main that runs the command whatever the answer to "Run now?".
AfterAnswerAlwaysRuns(question, a, mode) ==
    IF question = "q_mode" THEN "q_src"
    ELSE IF question = "q_src" THEN (IF mode = "0" THEN "q_lang" ELSE "q_url")
    ELSE IF question = "q_url" THEN "q_lang"
    ELSE IF question = "q_lang" THEN "q_overwrite"
    ELSE IF question = "q_overwrite" THEN "q_burn"
    ELSE IF question = "q_burn" THEN (IF a = "yes" THEN "q_use" ELSE "q_run")
    ELSE IF question = "q_use" THEN "q_format"
    ELSE IF question = "q_format" THEN "q_run"
    ELSE "start"

\* Where main goes after the answer a to a question: the next prompt,
\* run_and_stream ("start"), or `return 0` ("exited") when "Run now?" is
\* declined.  After the path, the URL is asked unless the mode is the local
\* folder (index 0).
AfterAnswer(question, a, mode) ==
    IF question = "q_mode" THEN "q_src"
    ELSE IF question = "q_src" THEN (IF mode = "0" THEN "q_lang" ELSE "q_url")
    ELSE IF question = "q_url" THEN "q_lang"
    ELSE IF question = "q_lang" THEN "q_overwrite"
    ELSE IF question = "q_overwrite" THEN "q_burn"
    ELSE IF question = "q_burn" THEN (IF a = "yes" THEN "q_use" ELSE "q_run")
    ELSE IF question = "q_use" THEN "q_format"
    ELSE IF question = "q_format" THEN "q_run"
    ELSE IF a = "yes" THEN "start"
    ELSE "exited"

\* A prompt of main returns an answer.  Declining "Run now?" prints
\* "Canceled." and returns 0, which __main__ passes to sys.exit.
Ask ==
    /\ pc \in Questions
    /\ \E a \in Answers(pc) :
          LET mode == IF pc = "q_mode" THEN a ELSE answered[1].a
              to == AfterAnswer(pc, a, mode)
          IN /\ answered' = Append(answered, [q |-> pc, a |-> a])
             /\ pc' = to
             /\ IF to = "exited"
                THEN /\ mainret' = <<0>>
                     /\ wizardExit' = <<ProcessExitStatus(0)>>
                ELSE UNCHANGED <<mainret, wizardExit>>
    /\ UNCHANGED <<envVars, menuVars, calls, old_handler, budget, faults,
                   intrLeft, strategy, handler, count, relayVars, raising,
                   spawned, childVars, out, sent, notices, summary, errors,
                   orphans, retcode>>

\* Escape or q in a menu of main: choose_keyed calls sys.exit(0).
AskQuit ==
    /\ pc \in MenuQuestions
    /\ wizardExit' = <<0>>
    /\ pc' = "exited"
    /\ UNCHANGED <<envVars, mainVars, menuVars, calls, old_handler, budget,
                   faults, intrLeft, strategy, handler, count, relayVars,
                   raising, spawned, childVars, out, sent, notices, summary,
                   errors, orphans, retcode>>

\* input() raises EOFError in a prompt of main.
AskEof ==
    /\ pc \in LineQuestions
    /\ pc' = "raised"
    /\ UNCHANGED <<envVars, mainVars, menuVars, calls, old_handler, budget,
                   faults, intrLeft, strategy, handler, count, relayVars,
                   raising, spawned, childVars, out, sent, notices, summary,
                   errors, orphans, retcode, wizardExit>>

\* main from its first prompt on, on a terminal.
WizardInit ==
    /\ InitProgram
    /\ MenuIdle
    /\ OnTerminal
    /\ pc = "q_mode"
    /\ calls = 1
    /\ ptyForkOk \in BOOLEAN
    /\ hasKillpg \in BOOLEAN
    /\ execOk \in BOOLEAN
    /\ execErrno \in (IF execOk THEN {"none"} ELSE ExecErrors)
    /\ repertoire = PlainBytes
    /\ budget = WizardMaxOut
    /\ faults \in 0..MaxFaults
    /\ intrLeft = WizardMaxInterrupts

WizardNext == Ask \/ AskQuit \/ AskEof \/ Next

WizardSpec == WizardInit /\ [][WizardNext]_vars


\* ------------------------------------------------- repeated invocations
\* A caller invokes run_and_stream again after it returned.  Everything
\* local to the earlier invocation is gone; the installed SIGINT handler and
\* what was written stay; pseudo-terminal allocation may have another outcome
\* than before.
Reinvoke ==
    /\ pc = "returned"
    /\ calls < MaxCalls
    /\ calls' = calls + 1
    /\ ptyForkOk' \in BOOLEAN
    /\ strategy' = "none"
    /\ retcode' = <<>>
    /\ child' = "none"
    /\ status' = <<>>
    /\ pending' = {}
    /\ chan' = <<>>
    /\ wrote' = <<>>
    /\ pc' = "start"
    /\ UNCHANGED <<stdinTty, stdoutTty, hasKillpg, execOk, execErrno, repertoire,
                   mainVars, menuVars, old_handler, budget, faults, intrLeft, handler, count,
                   relayVars, raising, spawned, out, sent, notices, summary,
                   errors, orphans, wizardExit>>

\* run_and_stream called by a program whose standard streams may or may not
\* be terminals, up to MaxCalls times, for children that are not interrupted.
SessionInit ==
    /\ InitProgram
    /\ MenuIdle
    /\ stdinTty \in BOOLEAN
    /\ stdoutTty \in BOOLEAN
    /\ pc = "start"
    /\ calls = 1
    /\ ptyForkOk \in BOOLEAN
    /\ hasKillpg = TRUE
    /\ execOk \in BOOLEAN
    /\ execErrno \in (IF execOk THEN {"none"} ELSE ExecErrors)
    /\ repertoire = PlainBytes
    /\ budget = SessionMaxOut
    /\ faults = 0
    /\ intrLeft = 0

SessionNext ==
    \/ PtySpawn \/ PtyUnavailable \/ PtySelect \/ PtyReadData \/ PtyReadEof
    \/ PtyChildDone \/ PtyChildAlive
    \/ PipeSpawn \/ PipeSpawnFailure \/ PipeSpawnRaise
    \/ PipeReadChunk \/ PipeReadEof
    \/ PipeCr \/ PipeLf \/ PipeOther \/ PipeFlush \/ PipeWait
    \/ MainReturn \/ MainRaise
    \/ ChildWrite \/ ChildExit
    \/ Reinvoke

SessionSpec == SessionInit /\ [][SessionNext]_vars


\* ------------------------------------------------------------- properties
\* The terminal, for the statements about what is visible: a line of cells
\* written from the cursor position; "\r" moves the cursor to the first
\* cell, "\n" ends the line and starts an empty one.
Put(row, i, c) ==
    [j \in 1..Max(Len(row), i) |->
        IF j = i THEN c ELSE IF j <= Len(row) THEN row[j] ELSE SP]

RECURSIVE Render(_)
Render(s) ==
    IF s = <<>> THEN [row |-> <<>>, col |-> 0, prev |-> <<>>]
    ELSE LET r == Render(SubSeq(s, 1, Len(s) - 1))
             c == s[Len(s)]
         IN IF c = CR THEN [r EXCEPT !.col = 0]
            ELSE IF c = LF THEN [row |-> <<>>, col |-> 0, prev |-> r.row]
            ELSE [r EXCEPT !.row = Put(r.row, r.col + 1, c), !.col = r.col + 1]

\* `line` shows `segment` and, after it, blanks only.
ShowsOnly(line, segment) ==
    /\ Len(line) >= Len(segment)
    /\ \A i \in 1..Len(line) :
          line[i] = (IF i <= Len(segment) THEN segment[i] ELSE SP)

\* Number of occurrences of c in s.
Occurrences(s, c) == Cardinality({i \in 1..Len(s) : s[i] = c})

\* The bytes the step wrote to standard output.
Written == SubSeq(out', Len(out) + 1, Len(out'))

\* The step is _stream_output processing the character c without raising.
RelayStep(c) ==
    /\ pc = "pipe_char"
    /\ text /= <<>>
    /\ Head(text) = c
    /\ text' = Tail(text)

\* The step is a SIGINT reaching the handler of the supervisor.
HandlerStep == intrLeft' = intrLeft - 1 /\ handler /= "prior"

\* C1: in the PTY strategy, once the child has terminated the relay loop
\* observes its exit and run_and_stream returns.
C1_PtyRunReturns ==
    (strategy = "pty" /\ child = "exited") ~> (pc \in {"returned", "exited"})

\* C2: whenever a child was spawned and has terminated, a summary line with
\* its exit code is written, and no summary line is written before the wait
\* has observed the exit of the child.
C2_SummaryAfterExit ==
    /\ (spawned > 0 /\ child = "exited") ~> (summary /= <<>>)
    /\ [](summary /= <<>> => child = "reaped")

\* C3: after each write of the pipe relay caused by "\r" or "\n", the display
\* line the write went to shows only the characters of the most recent
\* segment (the pending line, a text of at least one character) and blanks.
C3_NoStrayCharacters ==
    [][/\ (RelayStep(CR) /\ out' /= out /\ acc /= <<>>
             => ShowsOnly(Render(out').row, acc))
       /\ (RelayStep(LF) /\ out' /= out /\ acc /= <<>>
             => ShowsOnly(Render(out').prev, acc))]_vars

\* C4: whenever the pipe relay commits a line on "\n" (the traceback filter
\* lets the line through), the number of padding spaces written equals
\* max(0, last_len - len(acc)) as it was before the commit, and afterwards
\* acc is empty and last_len is 0.
C4_PaddingOnCommit ==
    [][RelayStep(LF) /\ ProcessTracebackLine(acc, suppress).line = acc
         => /\ Occurrences(Written, SP) = Max(0, last_len - Len(acc))
            /\ acc' = <<>>
            /\ last_len' = 0]_vars

\* C5: with suppression inactive, every "\n" the pipe relay reads causes
\* exactly one write, which ends in "\n" and holds no other "\n".
C5_EveryLineFeedWritten ==
    [][RelayStep(LF) /\ ~suppress.on
         => /\ Written /= <<>>
            /\ Written[Len(Written)] = LF
            /\ Occurrences(Written, LF) = 1]_vars

\* C6: the first interrupt of a run moves the counter from 0 to 1, emits the
\* stop notice, sends SIGTERM and nothing else to the process group of the
\* child (to the child alone where os.killpg is missing), and in the pipe
\* strategy switches suppression on.
C6_FirstInterrupt ==
    [][HandlerStep /\ count = 0 /\ child = "running"
         => /\ count' = 1
            /\ notices' = notices + 1
            /\ sent' = Append(sent, [to |-> IF hasKillpg THEN "group" ELSE "child",
                                     pid |-> spawned, sig |-> SIGTERM])
            /\ pending' = {SIGTERM}
            /\ (strategy = "pipe" => suppress'.on)]_vars

C6_Witness ==
    /\ strategy = "pipe"
    /\ child = "running"
    /\ count = 1
    /\ notices = 1
    /\ suppress.on
    /\ sent = <<[to |-> "group", pid |-> spawned, sig |-> SIGTERM]>>
    /\ pending = {SIGTERM}

\* C7: a second interrupt while the child is running moves the counter from
\* 1 to 2 and sends SIGKILL to the target the first interrupt sent SIGTERM to.
C7_SecondInterruptSameTarget ==
    [][HandlerStep /\ count = 1 /\ child = "running"
         => /\ count' = 2
            /\ sent' = Append(sent, [sent[Len(sent)] EXCEPT !.sig = SIGKILL])]_vars

\* C8: when run_and_stream has returned or raised, the SIGINT handler is the
\* one that was installed before the run.
C8_HandlerRestored ==
    pc \in {"returned", "raised"} => handler = "prior"

\* C9 as stated: the counter of the handler only takes the values 0, 1, 2.
C9_ThreeLevels == count \in {0, 1, 2}

\* C9 as amended: within one run the counter never decreases and rises by
\* exactly one per interrupt, also beyond 2; every interrupt after the first
\* sends SIGKILL, so there is no third behaviour.
C9_CounterMonotone ==
    [][/\ (HandlerStep => count' = count + 1)
       /\ (~HandlerStep /\ spawned' = spawned => count' = count)
       /\ (HandlerStep /\ count >= 1 => sent'[Len(sent')].sig = SIGKILL)]_vars

C9_Witness ==
    /\ count = 3
    /\ child = "running"
    /\ Len(sent) = 3
    /\ sent[3].sig = SIGKILL

UpKeys == {"UP", "k"}
DownKeys == {"DOWN", "j"}
LeftKeys == {"LEFT", "h"}
RightKeys == {"RIGHT", "l"}
OtherKeys ==
    KeyEvents \ (UpKeys \cup DownKeys \cup LeftKeys \cup RightKeys
                    \cup {"ENTER", "ESC", "q"})

\* The menu is the interactive one.
Interactive == stdinTty /\ stdoutTty

\* The step is the interactive menu consuming the key event `key`.
KeyStep(key) ==
    /\ pc = "menu_key"
    /\ typed' = Append(typed, key)

\* Every key event consumed so far is in `keys`.
OnlyTyped(keys) == \A i \in 1..Len(typed) : typed[i] \in keys

\* C11: for a child terminated by a delivered signal n, the code returned by
\* run_and_stream and the code shown in the summary line are both 128 + n,
\* in the PTY and in the pipe strategy.
C11_SignalExitCode ==
    pc = "returned" /\ child = "reaped" /\ status[1] = "signal"
        => /\ retcode = <<128 + status[2]>>
           /\ summary /= <<>>
           /\ summary[Len(summary)] = 128 + status[2]

\* C12: when the program cannot be executed (not found, or not runnable) and
\* the user does not interrupt, run_and_stream raises no exception, and when
\* it returns it returns 127 after exactly one explanatory message, written
\* to the error stream, whichever strategy attempted the spawn.
C12_SpawnFailure ==
    ~execOk /\ sent = <<>>
        => /\ pc /= "raised"
           /\ (pc = "returned"
                 => /\ retcode = <<SpawnFailureCode>>
                    /\ errors = 1
                    /\ SpawnMessageStream = "stderr")

\* C13: when pseudo-terminal allocation fails, the same invocation goes on
\* with the pipe strategy and nothing is reported or returned for the
\* failure; the invocation returns the code of the pipe run (the code of its
\* summary line, the exit status of a child that exited normally); and an
\* invocation that finds allocation working uses the PTY strategy, also
\* after an earlier invocation fell back.
C13_PtyFallback ==
    [][/\ (pc = "start" /\ ~ptyForkOk /\ pc' /= pc
             => /\ pc' = "pipe_start"
                /\ calls' = calls
                /\ errors' = errors
                /\ retcode' = retcode
                /\ wizardExit' = wizardExit
                /\ raising' = raising)
       /\ (pc = "pipe_wait" /\ pc' = "returned"
             => /\ retcode' = <<summary'[Len(summary')]>>
                /\ (status[1] = "exit" => retcode' = <<status[2]>>))
       /\ (pc = "start" /\ ptyForkOk /\ pc' /= pc => strategy' = "pty")]_vars

C13_Witness ==
    /\ calls = 2
    /\ strategy = "pty"
    /\ old_handler = "pipe"
    /\ summary = <<3>>
    /\ errors = 0
    /\ child = "running"

\* C14: when standard input or standard output of the wizard is not a
\* terminal, the supervisor does not use the PTY strategy.
C14_HeadlessUsesPipe ==
    ~(stdinTty /\ stdoutTty) => strategy /= "pty"

\* C15: in the interactive menu with at least one option, the selected
\* index is at least 0 and less than the number of options after every
\* sequence of key events.
C15_IndexInRange ==
    Interactive /\ options > 0 /\ pc \in {"menu_key", "menu_returned"}
        => 0 <= idx /\ idx < options

\* C16: ArrowUp or k moves the selection to (index - 1) mod count, ArrowDown
\* or j to (index + 1) mod count, and Enter returns the index reached; so,
\* from a starting index of the list, count presses of Down, or of Up, lead
\* back to the starting index.
C16_WrapAround ==
    [][/\ \A key \in UpKeys :
            KeyStep(key) => idx' = (idx - 1) % options /\ pc' = "menu_key"
       /\ \A key \in DownKeys :
            KeyStep(key) => idx' = (idx + 1) % options /\ pc' = "menu_key"
       /\ (KeyStep("ENTER") => choice' = <<idx>> /\ pc' = "menu_returned")
       /\ (/\ pc = "menu_key"
           /\ initial \in 0..(options - 1)
           /\ Len(typed') = options
           /\ (OnlyTyped(DownKeys)' \/ OnlyTyped(UpKeys)')
           => idx' = initial)]_vars

C16_Witness ==
    /\ Interactive
    /\ options = 3
    /\ initial = 0
    /\ typed = <<"DOWN", "DOWN", "DOWN", "ENTER">>
    /\ choice = <<0>>
    /\ pc = "menu_returned"

\* C17: ArrowLeft or h moves the selection to max(0, index - 1) and
\* ArrowRight or l to min(count - 1, index + 1): Left at index 0 and Right at
\* index count - 1 leave the index where it is.
C17_ClampedLeftRight ==
    [][/\ \A key \in LeftKeys :
            KeyStep(key) => /\ idx' = Max(0, idx - 1)
                            /\ (idx = 0 => idx' = 0)
                            /\ pc' = "menu_key"
       /\ \A key \in RightKeys :
            KeyStep(key) => /\ idx' = Min(options - 1, idx + 1)
                            /\ (idx = options - 1 => idx' = idx)
                            /\ pc' = "menu_key"]_vars

C17_Witness ==
    /\ Interactive
    /\ options = 2
    /\ initial = 0
    /\ typed = <<"LEFT", "LEFT", "RIGHT", "RIGHT">>
    /\ idx = 1
    /\ pc = "menu_key"

\* C18: a key that is not a navigation key, Enter, Escape or q changes
\* nothing in the interactive menu: the index stays, the menu does not
\* return, the program does not exit, the menu stays on the screen.
C18_OtherKeysIgnored ==
    [][\A key \in OtherKeys :
          KeyStep(key) => /\ idx' = idx
                          /\ pc' = "menu_key"
                          /\ choice' = choice
                          /\ wizardExit' = wizardExit
                          /\ screen' = screen]_vars

C18_Witness ==
    /\ Interactive
    /\ typed = <<"SPACE", "x">>
    /\ pc = "menu_key"
    /\ idx = initial
    /\ choice = <<>>
    /\ wizardExit = <<>>
    /\ screen.alt

\* C19: when the interactive menu has ended (Enter returned the index,
\* Escape or q ended the program, with status 0, or an error of the key
\* reader left the menu) the terminal shows the main screen and the cursor.
C19_ScreenRestored ==
    /\ (pc \in {"menu_returned", "raised", "exited"}
          => ~screen.alt /\ ~screen.hidden)
    /\ (Interactive /\ typed /= <<>> /\ typed[Len(typed)] \in {"ESC", "q"}
          => pc = "exited" /\ wizardExit = <<0>>)

C19_Witness ==
    /\ Interactive
    /\ typed = <<"DOWN", "q">>
    /\ pc = "exited"
    /\ wizardExit = <<0>>
    /\ screen = [alt |-> FALSE, hidden |-> FALSE]

\* C20: when the menu is called with an index outside the list, the
\* selection starts at index 0, and Enter pressed at once returns 0.
C20_InitialIndexClamped ==
    Interactive /\ initial \notin 0..(options - 1)
        => /\ (pc = "menu_key" /\ typed = <<>> => idx = 0)
           /\ (typed = <<"ENTER">> => choice = <<0>>)

\* The step is prompt_choice reading the line `raw`.
PromptStep(raw) ==
    /\ pc = "menu_prompt"
    /\ typed' = Append(typed, raw)

\* `raw` is the decimal number n.
IsNumber(raw, n) == n + 1 \in 1..Len(Digits) /\ Digits[n + 1] = raw

\* C21: without a terminal the menu reads lines until one is a number i
\* with 1 <= i <= len(options) and returns i - 1; every other line asks
\* again and does not return.
C21_NumberedPrompt ==
    [][\A raw \in InputLines :
          PromptStep(raw)
            => IF \E i \in 1..options : IsNumber(raw, i)
               THEN /\ pc' = "menu_returned"
                    /\ \E i \in 1..options : IsNumber(raw, i) /\ choice' = <<i - 1>>
               ELSE /\ pc' = "menu_prompt"
                    /\ choice' = choice]_vars

\* The line opens a stack-trace block / holds the interrupt marker.
Opens(line) == line /= <<>> /\ line[1] = TB
HasMarker(line) == \E i \in 1..Len(line) : line[i] = KI

\* C22: with suppression on, the filter applied to a committed line drops a
\* line that opens a stack-trace block and sets the inside-block flag, drops
\* a line holding the interrupt marker and clears the flag, drops every line
\* while the flag is set, and passes every other line unchanged, leaving
\* the flag as it was; the relay writes nothing for a dropped line.
C22_FilterAutomaton ==
    [][RelayStep(LF) /\ suppress.on
         => LET r == ProcessTracebackLine(acc, suppress)
            IN /\ suppress' = r.sup
               /\ suppress'.on
               /\ (Opens(acc) => r.line = <<>>)
               /\ (Opens(acc) /\ ~HasMarker(acc) => suppress'.in_tb)
               /\ (HasMarker(acc) => r.line = <<>>)
               /\ (HasMarker(acc) /\ ~Opens(acc) => ~suppress'.in_tb)
               /\ (~Opens(acc) /\ ~HasMarker(acc) /\ suppress.in_tb
                     => r.line = <<>> /\ suppress'.in_tb)
               /\ (~Opens(acc) /\ ~HasMarker(acc) /\ ~suppress.in_tb
                     => r.line = acc /\ ~suppress'.in_tb)
               /\ (r.line = <<>> => Written = <<>>)
               /\ (r.line /= <<>>
                     => SubSeq(Written, 2, 1 + Len(acc)) = acc)]_vars

C22_Witness ==
    /\ suppress = [on |-> TRUE, in_tb |-> FALSE]
    /\ wrote = <<TB, LF, KI, LF>>
    /\ chan = <<>>
    /\ text = <<>>
    /\ acc = <<>>
    /\ out = <<>>

\* The step is the pipe relay at work on the pending line (a character of
\* the chunk, or the end of the chunk).
RelayAtWork == pc \in {"pipe_char", "pipe_flush"}

\* C23: in the pipe strategy, with suppression on, no write of the relay
\* holds characters of a pending line that opens a stack-trace block or
\* that lies inside one.
C23_NoTraceCharacters ==
    [][/\ RelayAtWork
       /\ suppress.on
       /\ acc /= <<>>
       /\ (Opens(acc) \/ suppress.in_tb)
       => Written = <<>>]_vars

\* C27: on every "\r" the pipe relay writes "\r" and the pending line,
\* records the length of the pending line in last_len and empties the
\* pending line, whatever the traceback filter holds.
C27_CarriageReturnWrites ==
    [][RelayStep(CR)
         => /\ Written = <<CR>> \o acc
            /\ last_len' = Len(acc)
            /\ acc' = <<>>]_vars

\* The final bytes of the four arrow sequences.
ArrowFinals == {"A", "B", "C", "D"}

\* read_key has returned after reading an escape byte and then something
\* that completes no arrow sequence.
EscapeThenOther ==
    /\ ch[1] = Esc
    /\ ~(Len(ch) = 3 /\ ch[2] = "[" /\ ch[3] \in ArrowFinals)

\* C24: read_key returns UP, DOWN, RIGHT, LEFT for ESC [ A, ESC [ B,
\* ESC [ C, ESC [ D; ESC for an escape byte followed by anything else;
\* ENTER for carriage return or line feed; SPACE for a space; and any other
\* single byte itself.
C24_Decoding ==
    pc = "key_returned"
      => /\ (ch = <<Esc, "[", "A">> => retkey = <<"UP">>)
         /\ (ch = <<Esc, "[", "B">> => retkey = <<"DOWN">>)
         /\ (ch = <<Esc, "[", "C">> => retkey = <<"RIGHT">>)
         /\ (ch = <<Esc, "[", "D">> => retkey = <<"LEFT">>)
         /\ (EscapeThenOther => retkey = <<"ESC">>)
         /\ (ch[1] \in {CR, LF} => retkey = <<"ENTER">>)
         /\ (ch[1] = SP => retkey = <<"SPACE">>)
         /\ (ch[1] \notin {Esc, CR, LF, SP, NoByte}
               => Len(ch) = 1 /\ retkey = <<ch[1]>>)

\* read_key has read ESC [ D and returned LEFT.
C24_Witness ==
    /\ pc = "key_returned"
    /\ ch = <<Esc, "[", "D">>
    /\ retkey = <<"LEFT">>

\* C25: when the first byte read is the escape byte and no further byte is
\* there, read_key returns ESC; it does not wait for more input (the wait
\* ends only if it returns ESC, a byte arrives, the input ends or the read
\* fails).
C25_EscapeAlone ==
    (pc = "key_read" /\ ch = <<Esc>> /\ keybuf = <<>> /\ ~eof)
      ~> (retkey = <<"ESC">> \/ keybuf /= <<>> \/ eof \/ pc = "raised")

\* C26: on every way out of read_key after the attributes were saved (a key
\* returned, or an error raised while switching to raw mode or reading), the
\* terminal has the attributes it had when read_key was called.
C26_AttributesRestored ==
    pc \in {"key_returned", "raised"} /\ old /= "unset"
      => tattr = old /\ tattr \in TermModes

\* The second read of read_key failed on a terminal in cbreak mode, and the
\* terminal is in cbreak mode again.
C26_Witness ==
    /\ pc = "raised"
    /\ ch = <<Esc>>
    /\ old = "cbreak"
    /\ tattr = "cbreak"

\* What the pipe relay, suppression off, writes for the characters s of one
\* chunk, given the pending line and the length last rendered.
RECURSIVE PipeChunkWrites(_, _, _)
PipeChunkWrites(s, pendingLine, lastLen) ==
    LET off == [on |-> FALSE, in_tb |-> FALSE]
    IN IF s = <<>> THEN FlushWrite(pendingLine, lastLen, off)
       ELSE IF Head(s) = CR
       THEN CrWrite(pendingLine, off)
              \o PipeChunkWrites(Tail(s), <<>>, Len(pendingLine))
       ELSE IF Head(s) = LF
       THEN LfWrite(pendingLine, lastLen, off)
              \o PipeChunkWrites(Tail(s), <<>>, 0)
       ELSE PipeChunkWrites(Tail(s), Append(pendingLine, Head(s)), lastLen)

\* C28: for the same bytes of the child, the PTY strategy writes to the
\* terminal what the pipe strategy writes: a PTY run that relayed every byte
\* of the child has written what the pipe relay writes for those bytes.
C28_SameWrites ==
    strategy = "pty" /\ pc = "returned" /\ chan = <<>> /\ Len(out) = Len(wrote)
      => out = PipeChunkWrites(wrote, <<>>, 0)

\* C29: in the PTY strategy, when the summary line is written the bytes
\* relayed to standard output are exactly the bytes the child wrote, in
\* order, none dropped.
C29_PtyRelaysAll ==
    strategy = "pty" /\ summary /= <<>> => out = wrote

\* C30: in the PTY strategy no turn of the relay loop goes back to the
\* readiness check without having polled the child with waitpid, a turn
\* whose read returned end of file or failed included.
C30_EveryTurnPolls ==
    [][(pc \in {"pty_read", "pty_waitpid"} /\ pc' = "pty_select")
         => (pc = "pty_waitpid")]_vars

\* C32: in the pipe strategy the bytes written to the terminal depend only
\* on the bytes of the child, not on how the reads cut them into chunks: an
\* unterminated pending line is written at the end of the stream only, so a
\* run that was not interrupted has written what the relay writes for the
\* whole stream taken at once.
C32_ChunkingInvisible ==
    strategy = "pipe" /\ pc = "returned" /\ count = 0 /\ ~suppress.on
      => out = PipeChunkWrites(wrote, <<>>, 0)

\* C34: one invocation of run_and_stream starts the external program at most
\* once, an error raised while relaying the output of the PTY child
\* included.
C34_SpawnsOnce == calls = 1 => spawned <= 1

\* C33: while an interactive menu is waiting for a key, pressing Ctrl+C
\* quits the wizard.
C33_CtrlCQuits ==
    (pc = "key_read" /\ ch = <<>> /\ keybuf = <<CtrlC>>) ~> (pc = "exited")

\* The questions answered so far, in the order they were answered.
Asked == [i \in 1..Len(answered) |-> answered[i].q]

\* The answer given to a question that was answered.
AnswerTo(question) ==
    answered[CHOOSE i \in 1..Len(answered) : answered[i].q = question].a

\* The prompts that come before the confirmation, for the answers given:
\* the URL only for the YouTube mode, the two burn-in menus only when
\* burn-in was chosen.
PromptsDue ==
    <<"q_mode", "q_src">>
      \o (IF AnswerTo("q_mode") = "1" THEN <<"q_url">> ELSE <<>>)
      \o <<"q_lang", "q_overwrite", "q_burn">>
      \o (IF AnswerTo("q_burn") = "yes" THEN <<"q_use", "q_format">> ELSE <<>>)

\* run_and_stream has been called.
Invoked ==
    \/ pc \notin Questions \cup {"raised", "exited"}
    \/ spawned > 0
    \/ retcode /= <<>>

\* The confirmation was answered with a.
Confirmation(a) ==
    /\ answered /= <<>>
    /\ answered[Len(answered)] = [q |-> "q_run", a |-> a]

\* C31: run_and_stream is called only after every earlier prompt completed
\* and the confirmation was answered with yes; when the confirmation is
\* declined no child is started and main returns 0; otherwise main returns
\* the code run_and_stream returned.
C31_RunsAfterConfirmation ==
    /\ Invoked => Confirmation("yes") /\ Asked = PromptsDue \o <<"q_run">>
    /\ Confirmation("no")
         => spawned = 0 /\ ~Invoked /\ mainret = <<0>> /\ wizardExit = <<0>>
    /\ mainret /= <<>> /\ Confirmation("yes") => mainret = retcode

\* Every prompt was asked, the command ran and its child exited with 3:
\* main returned 3.
C31_Witness ==
    /\ Len(answered) = 9
    /\ Confirmation("yes")
    /\ spawned = 1
    /\ retcode = <<3>>
    /\ mainret = <<3>>

====
